---- MODULE Spec2Model ----
(***************************************************************************)
(* A model of the IHD request management application (src/app.py): the    *)
(* session state (requests and datasets tables, the two ID counters), the *)
(* three pickle files of the data directory, and the handlers of the      *)
(* pages that read or change them.                                        *)
(***************************************************************************)
EXTENDS Integers, Sequences, FiniteSets, TLC

VARIABLES requests, datasets, last_request_id, last_dataset_id,
          data_loaded, disk, faults, steps, view, R, stats, peer

vars == <<requests, datasets, last_request_id, last_dataset_id,
          data_loaded, disk, faults, steps, view, R, stats, peer>>

stored == <<requests, datasets, last_request_id, last_dataset_id>>

-----------------------------------------------------------------------------
(* Bounds of the model.                                                    *)

\* I/O failures injected into save_data over one run
MaxFaults == 1
\* handler runs of one session
MaxSteps == 4
\* rows of a table handed to the metrics
MaxLen == 3

-----------------------------------------------------------------------------
(* Cell values.  A string is a sequence of one-character strings; a cell   *)
(* holding float NaN (an empty spreadsheet cell) is the one-token sequence *)
(* NaN, which no string equals.                                            *)

NaN == <<"NaN">>

IsNa(v) == v = NaN

DigitChars == <<"0", "1", "2", "3", "4", "5", "6", "7", "8", "9">>

DigitOf(c) == CHOOSE k \in 0..9 : DigitChars[k + 1] = c

IsDigit(c) == \E k \in 0..9 : DigitChars[k + 1] = c

\* str(n) for n >= 0
RECURSIVE Decimal(_)
Decimal(n) == IF n < 10 THEN <<DigitChars[n + 1]>>
              ELSE Decimal(n \div 10) \o <<DigitChars[(n % 10) + 1]>>

\* format(n, "04d"): zero-padded to at least four digits
RECURSIVE ZeroPad(_, _)
ZeroPad(s, width) == IF Len(s) >= width THEN s ELSE ZeroPad(<<"0">> \o s, width)

\* f"{prefix}{n:04d}"
FormatId(prefix, n) == prefix \o ZeroPad(Decimal(n), 4)

REQ == <<"R", "E", "Q", "-">>

DS == <<"D", "S", "-">>

\* f"REQ-{n:04d}"
FormatRequestId(n) == FormatId(REQ, n)

\* f"DS-{n:04d}"
FormatDatasetId(n) == FormatId(DS, n)

-----------------------------------------------------------------------------
(* Dates.  A DATE_REQUEST_RECEIVED cell is a datetime.date (the form), a   *)
(* string (a text cell of a sheet) or NaN; all three have one shape.       *)

DateCell(y, m, d) == [t |-> "date", y |-> y, m |-> m, d |-> d, s |-> <<>>]
StrCell(s) == [t |-> "str", y |-> 0, m |-> 0, d |-> 0, s |-> s]
NanCell == [t |-> "nan", y |-> 0, m |-> 0, d |-> 0, s |-> <<>>]

\* a pandas Timestamp, and pandas.NaT
Timestamp(y, m, d) == [t |-> "ts", y |-> y, m |-> m, d |-> d, s |-> <<>>]

NaT == Timestamp(0, 0, 0)

IsLeap(y) == (y % 4 = 0 /\ y % 100 # 0) \/ y % 400 = 0

DaysIn(y, m) == IF m = 2 THEN (IF IsLeap(y) THEN 29 ELSE 28)
                ELSE IF m \in {4, 6, 9, 11} THEN 30 ELSE 31

RECURSIVE Number(_)
Number(s) == IF s = <<>> THEN 0
             ELSE 10 * Number(SubSeq(s, 1, Len(s) - 1)) + DigitOf(s[Len(s)])

\* a string in the form YYYY-MM-DD naming a calendar day, else NaT
ParseIso(s) ==
    IF /\ Len(s) = 10
       /\ s[5] = "-" /\ s[8] = "-"
       /\ \A i \in {1, 2, 3, 4, 6, 7, 9, 10} : IsDigit(s[i])
    THEN LET y == Number(SubSeq(s, 1, 4))
             m == Number(SubSeq(s, 6, 7))
             d == Number(SubSeq(s, 9, 10))
         IN IF y >= 1 /\ m \in 1..12 /\ d >= 1 /\ d <= DaysIn(y, m)
            THEN Timestamp(y, m, d)
            ELSE NaT
    ELSE NaT

\* pd.to_datetime(value, errors='coerce') on one cell: a date or a timestamp
\* is kept, a string is parsed, anything else is NaT
ToDatetime(c) ==
    IF c.t \in {"date", "ts"} THEN Timestamp(c.y, c.m, c.d)
    ELSE IF c.t = "str" THEN ParseIso(c.s)
    ELSE NaT

\* Series.dt.date of one timestamp: the calendar day, NaT staying NaT
DtDate(ts) == ts

\* Series.dt.to_period('M') of one timestamp: the month, NaT staying NaT
ToPeriodM(ts) == IF ts = NaT THEN NaT ELSE Timestamp(ts.y, ts.m, 0)

\* chronological order of days and of months
Before(a, b) == \/ a.y < b.y
                \/ a.y = b.y /\ a.m < b.m
                \/ a.y = b.y /\ a.m = b.m /\ a.d < b.d

-----------------------------------------------------------------------------
(* Tables.  A table is a sequence of rows; a requests row carries the     *)
(* columns the handlers read.  A missing status is the cell NA.           *)

NA == "<NA>"

REQUEST_STATUSES == <<"Draft", "Submitted", "In Review", "Approved", "Rejected">>

DATASET_STATUSES == <<"Pending", "In Review", "Approved - Access Granted", "Rejected">>

Range(s) == {s[i] : i \in DOMAIN s}

Column(t, c) == [i \in DOMAIN t |-> t[i][c]]

\* pd.concat([a, b], ignore_index=True)
Concat(a, b) == a \o b

\* the elements of s at the positions where mask is TRUE, in order
RECURSIVE Compress(_, _)
Compress(s, mask) ==
    IF s = <<>> THEN <<>>
    ELSE IF Head(mask) THEN <<Head(s)>> \o Compress(Tail(s), Tail(mask))
         ELSE Compress(Tail(s), Tail(mask))

\* the distinct values of a sequence, in the order they first occur
RECURSIVE FirstSeen(_)
FirstSeen(s) ==
    IF s = <<>> THEN <<>>
    ELSE LET init == FirstSeen(SubSeq(s, 1, Len(s) - 1))
             last == s[Len(s)]
         IN IF last \in Range(init) THEN init ELSE Append(init, last)

Occurrences(s, v) == Cardinality({i \in DOMAIN s : s[i] = v})

\* a stable sort of s by the numbers rank[i] of its elements: an element goes
\* after those of lower rank and after the earlier ones of its own rank
SortBy(s, rank) ==
    LET pos(i) == 1 + Cardinality({j \in DOMAIN s :
                        \/ rank[j] < rank[i]
                        \/ rank[j] = rank[i] /\ j < i})
    IN [k \in DOMAIN s |-> s[CHOOSE i \in DOMAIN s : pos(i) = k]]

\* the sort key of a day or a month; it orders them as Before does
DateRank(ts) == ts.y * 10000 + ts.m * 100 + ts.d

\* the keys that are not NaT, in order
DropNaT(keys) == Compress(keys, [i \in DOMAIN keys |-> keys[i] # NaT])

\* groupby with dropna=False: the NaT key would be a group of its own
GroupKeysKeepNaT(keys) ==
    LET ks == FirstSeen(keys)
    IN SortBy(ks, [i \in DOMAIN ks |-> DateRank(ks[i])])

\* groupby with sort=False: the keys would come in the order they first occur
GroupKeysUnsorted(keys) == FirstSeen(DropNaT(keys))

\* the group keys of groupby: sort=True orders them, NaT keys are dropped
GroupKeys(keys) ==
    LET ks == FirstSeen(DropNaT(keys))
    IN SortBy(ks, [i \in DOMAIN ks |-> DateRank(ks[i])])

\* DataFrame.groupby(keys).size(): one <<key, count>> per key, in key order
GroupBySize(keys) ==
    LET ks == GroupKeys(keys)
    IN [i \in DOMAIN ks |-> [key |-> ks[i], n |-> Occurrences(keys, ks[i])]]

\* the order of value_counts: by descending count, ties in first-seen order
CountOrder(col, vals) ==
    SortBy(vals, [i \in DOMAIN vals |-> 0 - Occurrences(col, vals[i])])

\* Series.value_counts(): dropna=True drops the NaN cells and only those
ValueCounts(col) ==
    LET vals == CountOrder(col, FirstSeen(Compress(col, [i \in DOMAIN col |-> col[i] # NA])))
    IN [i \in DOMAIN vals |-> [value |-> vals[i], n |-> Occurrences(col, vals[i])]]

\* len(df[df['REQUEST_STATUS'] == 'Approved'])
ApprovedCount(t) ==
    Len(Compress(t, [i \in DOMAIN t |-> t[i].REQUEST_STATUS = "Approved"]))

\* len(df[df['REQUEST_STATUS'].isin(['Draft', 'Submitted', 'In Review'])])
PendingCount(t) ==
    Len(Compress(t, [i \in DOMAIN t |->
                        t[i].REQUEST_STATUS \in {"Draft", "Submitted", "In Review"}]))

\* requests.copy() with DATE_REQUEST_RECEIVED coerced by pd.to_datetime
CoerceDates(t) ==
    [i \in DOMAIN t |-> [t[i] EXCEPT !.DATE_REQUEST_RECEIVED = ToDatetime(@)]]

\* the copy with the derived column 'Month' added
AddMonth(t) ==
    [i \in DOMAIN t |->
        [c \in DOMAIN t[i] \cup {"Month"} |->
            IF c = "Month" THEN ToPeriodM(t[i].DATE_REQUEST_RECEIVED) ELSE t[i][c]]]

\* requests_by_date of the dashboard
RequestsByDate(t) ==
    LET copy == CoerceDates(t)
    IN GroupBySize([i \in DOMAIN copy |-> DtDate(copy[i].DATE_REQUEST_RECEIVED)])

\* monthly_counts of the Monthly Request Trends report
MonthlyCounts(t) ==
    LET copy == AddMonth(CoerceDates(t))
    IN GroupBySize(Column(copy, "Month"))

-----------------------------------------------------------------------------
(* Persistence: the three pickle files of the data directory.              *)

\* pickle.dump(obj, f): the bytes written
Pickle(obj) == [format |-> "pickle", obj |-> <<obj>>]

\* what open(path, 'wb') leaves when the dump after it fails: an empty file
Truncated == [format |-> "empty", obj |-> <<>>]

\* os.path.exists(path) is False
Absent == [format |-> "absent", obj |-> <<>>]

Exists(f) == f # Absent

\* pickle.load raises on a file that holds no complete pickle
Loadable(f) == f.format = "pickle"

\* pickle.load(f)
Unpickle(f) == f.obj[1]

\* dict.get(key, default)
Get(d, key, default) == IF key \in DOMAIN d THEN d[key] ELSE default

\* the session state that save_data writes
Memory(req, ds, lr, ld) ==
    [requests |-> req, datasets |-> ds, last_request_id |-> lr, last_dataset_id |-> ld]

\* a counters dictionary with the two values under each other's key
CountersSwapped(mem) ==
    [last_request_id |-> mem.last_dataset_id, last_dataset_id |-> mem.last_request_id]

\* the counters dictionary of save_data
Counters(mem) ==
    [last_request_id |-> mem.last_request_id, last_dataset_id |-> mem.last_dataset_id]

\* An I/O failure of save_data: none (at = 0), or at the at-th file, either in
\* open (the file is left as it was) or in the dump (the file is left empty).
NoFault == [at |-> 0, how |-> "none"]

Faults == {NoFault} \cup [at : 1..3, how : {"open", "write"}]

FaultCount(f) == IF f = NoFault THEN 0 ELSE 1

\* one "with open(path, 'wb') as f: pickle.dump(obj, f)" of save_data, the k-th
WriteFile(old, obj, k, fault) ==
    IF fault.at = 0 \/ k < fault.at THEN Pickle(obj)
    ELSE IF k = fault.at /\ fault.how = "write" THEN Truncated
    ELSE old

\* save_data(): requests, then datasets, then counters; an exception ends it
\* and makes it return False
SaveData(mem, d, fault) ==
    [disk |-> [requests |-> WriteFile(d.requests, mem.requests, 1, fault),
               datasets |-> WriteFile(d.datasets, mem.datasets, 2, fault),
               counters |-> WriteFile(d.counters, Counters(mem), 3, fault)],
     ok |-> fault.at = 0]

\* load_data(): each file read in turn into the session state, a missing file
\* giving the empty table or zero counters; an exception ends it, keeps what
\* was assigned before it, and makes it return False
LoadData(mem, d) ==
    LET okR == ~Exists(d.requests) \/ Loadable(d.requests)
        okD == okR /\ (~Exists(d.datasets) \/ Loadable(d.datasets))
        okC == okD /\ (~Exists(d.counters) \/ Loadable(d.counters))
        cnt == IF Exists(d.counters) /\ okC THEN Unpickle(d.counters) ELSE << >>
    IN [requests |-> IF ~okR THEN mem.requests
                     ELSE IF Exists(d.requests) THEN Unpickle(d.requests) ELSE <<>>,
        datasets |-> IF ~okD THEN mem.datasets
                     ELSE IF Exists(d.datasets) THEN Unpickle(d.datasets) ELSE <<>>,
        last_request_id |-> IF ~okC THEN mem.last_request_id
                            ELSE IF Exists(d.counters) THEN Get(cnt, "last_request_id", 0) ELSE 0,
        last_dataset_id |-> IF ~okC THEN mem.last_dataset_id
                            ELSE IF Exists(d.counters) THEN Get(cnt, "last_dataset_id", 0) ELSE 0,
        ok |-> okC]

-----------------------------------------------------------------------------
(* What one run of the script shows: the sidebar quick stats, the output   *)
(* of the page, and the messages of the handler that ran.                  *)

\* a part of the page that was not rendered, and one that was
NotShown == <<>>

Shown(x) == <<x>>

\* a run that has shown nothing yet
Blank(op, page) ==
    [op |-> op,
     page |-> page,
     total |-> NotShown,
     total_datasets |-> NotShown,
     approval_rate |-> NotShown,
     approved |-> NotShown,
     pending |-> NotShown,
     status_counts |-> NotShown,
     by_date |-> NotShown,
     monthly |-> NotShown,
     requests_copy |-> NotShown,
     found |-> NotShown,
     status_filter |-> "",
     search_term |-> <<>>,
     uploaded |-> NotShown,
     messages |-> {},
     raised |-> FALSE]

\* the messages a handler reports
Report(op, page, messages) == [Blank(op, page) EXCEPT !.messages = messages]

\* (approved_count / total) * 100 in tenths of a percent; a zero total raises
\* ZeroDivisionError
ApprovalRate(approved, total) ==
    IF total = 0 THEN [raised |-> TRUE, shown |-> NotShown]
    ELSE [raised |-> FALSE, shown |-> Shown((approved * 1000 + total \div 2) \div total)]

\* the Approval Rate metric without the guard "if len(requests) > 0"
SidebarApprovalRateUnguarded(req) == ApprovalRate(ApprovedCount(req), Len(req))

\* the Approval Rate metric of the sidebar, computed only for a non-empty table
SidebarApprovalRate(req) ==
    IF Len(req) > 0 THEN ApprovalRate(ApprovedCount(req), Len(req))
    ELSE [raised |-> FALSE, shown |-> NotShown]

\* main(): the quick stats of the sidebar
Sidebar(page, req, ds) ==
    [Blank("render", page) EXCEPT
       !.total = Shown(Len(req)),
       !.total_datasets = Shown(Len(ds)),
       !.approval_rate = SidebarApprovalRate(req).shown,
       !.raised = SidebarApprovalRate(req).raised]

\* the Approved Requests metric of the dashboard
DashboardApproved(req) == IF Len(req) > 0 THEN ApprovedCount(req) ELSE 0

\* the Pending Requests metric of the dashboard
DashboardPending(req) == IF Len(req) > 0 THEN PendingCount(req) ELSE 0

\* "Requests Over Time": the dates are coerced on requests.copy(), so the
\* session's table keeps its cells
OverTimeFrames(req) == [requests |-> req, requests_copy |-> CoerceDates(req)]

\* the report without .copy(): the coercion and 'Month' would land on the
\* session's table
MonthlyFramesInPlace(req) ==
    [requests |-> AddMonth(CoerceDates(req)), requests_copy |-> AddMonth(CoerceDates(req))]

\* "Monthly Request Trends": the dates are coerced and the column 'Month' is
\* added on requests.copy(), so the session's table keeps its cells and columns
MonthlyFrames(req) == [requests |-> req, requests_copy |-> AddMonth(CoerceDates(req))]

NoRequests == "No requests found."

\* show_dashboard()
DashboardView(req, ds) ==
    LET side == Sidebar("Dashboard", req, ds)
        copy == OverTimeFrames(req).requests_copy
    IN IF side.raised THEN side
       ELSE [side EXCEPT
               !.approved = Shown(DashboardApproved(req)),
               !.pending = Shown(DashboardPending(req)),
               !.status_counts = IF Len(req) > 0
                                 THEN Shown(ValueCounts(Column(req, "REQUEST_STATUS")))
                                 ELSE NotShown,
               !.requests_copy = IF Len(req) > 0 THEN Shown(copy) ELSE NotShown,
               !.by_date = IF Len(req) > 0 THEN Shown(RequestsByDate(req)) ELSE NotShown,
               !.messages = IF Len(req) > 0 THEN {} ELSE {NoRequests}]

\* the session's requests table after show_dashboard()
DashboardRequests(req) == IF Len(req) > 0 THEN OverTimeFrames(req).requests ELSE req

ReportTypes == {"Request Status Summary", "Monthly Request Trends"}

NoReportData == "No data available for reports."

\* show_reports() with the selected report type
ReportsView(req, ds, report_type) ==
    LET side == Sidebar("Reports", req, ds)
    IN IF side.raised THEN side
       ELSE IF Len(req) = 0 THEN [side EXCEPT !.messages = {NoReportData}]
       ELSE IF report_type = "Request Status Summary"
       THEN [side EXCEPT !.status_counts = Shown(ValueCounts(Column(req, "REQUEST_STATUS")))]
       ELSE [side EXCEPT !.requests_copy = Shown(MonthlyFrames(req).requests_copy),
                         !.monthly = Shown(MonthlyCounts(req))]

\* the session's requests table after show_reports()
ReportsRequests(req, report_type) ==
    IF Len(req) > 0 /\ report_type = "Monthly Request Trends"
    THEN MonthlyFrames(req).requests
    ELSE req

-----------------------------------------------------------------------------
(* Rows, and the values the user and the uploaded sheets supply.           *)

RequestRow(id, date, name, email, status) ==
    [REQUEST_ID |-> id, DATE_REQUEST_RECEIVED |-> date, NAME |-> name,
     EMAIL |-> email, REQUEST_STATUS |-> status]

DatasetRow(id, name, status) ==
    [DATASET_ID |-> id, DATASET_NAME |-> name, STATUS |-> status]

RequestColumns == {"REQUEST_ID", "DATE_REQUEST_RECEIVED", "NAME", "EMAIL", "REQUEST_STATUS"}

\* a row whose cells are all NaN
NanRequestRow == RequestRow(NaN, NanCell, NaN, NaN, NA)

Ann == <<"A", "n", "n">>
AnnMail == <<"a", "@", "x">>
Bob == <<"B", "o", "b">>
BobMail == <<"b", "@", "x">>

Jan05 == DateCell(2024, 1, 5)
Feb10 == DateCell(2024, 2, 10)
Jan05Text == StrCell(<<"2", "0", "2", "4", "-", "0", "1", "-", "0", "5">>)
Jan20Text == StrCell(<<"2", "0", "2", "4", "-", "0", "1", "-", "2", "0">>)
Feb30Text == StrCell(<<"2", "0", "2", "4", "-", "0", "2", "-", "3", "0">>)
TbdText == StrCell(<<"t", "b", "d">>)

Upper == <<"A", "B", "C", "D", "E", "F", "G", "H", "I", "J", "K", "L", "M",
           "N", "O", "P", "Q", "R", "S", "T", "U", "V", "W", "X", "Y", "Z">>
Lower == <<"a", "b", "c", "d", "e", "f", "g", "h", "i", "j", "k", "l", "m",
           "n", "o", "p", "q", "r", "s", "t", "u", "v", "w", "x", "y", "z">>

\* str.lower() of one character
ToLower(c) == IF \E k \in DOMAIN Upper : Upper[k] = c
              THEN Lower[CHOOSE k \in DOMAIN Upper : Upper[k] = c]
              ELSE c

\* Series.str.contains(term, case=False, na=False) on one cell
Contains(cell, term) ==
    /\ ~IsNa(cell)
    /\ \E k \in 0..(Len(cell) - Len(term)) :
          \A j \in 1..Len(term) : ToLower(cell[k + j]) = ToLower(term[j])

\* the rows show_view_requests keeps under the filters
FilterRequests(req, status_filter, search_term) ==
    LET byStatus == IF status_filter # "All"
                    THEN Compress(req, [i \in DOMAIN req |->
                                           req[i].REQUEST_STATUS = status_filter])
                    ELSE req
    IN IF search_term # <<>>
       THEN Compress(byStatus, [i \in DOMAIN byStatus |->
                                   \/ Contains(byStatus[i].NAME, search_term)
                                   \/ Contains(byStatus[i].EMAIL, search_term)])
       ELSE byStatus

-----------------------------------------------------------------------------
(* The editable grids (st.data_editor with num_rows="dynamic").            *)

NoEdit == [kind |-> "none", i |-> 0, value |-> <<>>]

\* what the user does in the grid of requests: nothing, pick another status
\* for a row, retype a row's REQUEST_ID, delete a row, or add a row
RequestEdits(shown) ==
    {NoEdit}
    \cup [kind : {"status"}, i : DOMAIN shown, value : {<<"Approved">>}]
    \cup [kind : {"id"}, i : DOMAIN shown, value : {FormatRequestId(1)}]
    \cup [kind : {"delete"}, i : DOMAIN shown, value : {<<>>}]
    \cup [kind : {"add"}, i : {0}, value : {FormatRequestId(2)}]

DeleteAt(t, i) == SubSeq(t, 1, i - 1) \o SubSeq(t, i + 1, Len(t))

\* the frame st.data_editor returns for the grid of requests
EditedRequests(shown, e) ==
    IF e.kind = "add"
    THEN Append(shown, [NanRequestRow EXCEPT !.REQUEST_ID = e.value,
                                             !.REQUEST_STATUS = "Draft"])
    ELSE IF e.kind = "none" THEN shown
    ELSE IF e.kind = "status"
    THEN [shown EXCEPT ![e.i].REQUEST_STATUS = e.value[1]]
    ELSE IF e.kind = "id" THEN [shown EXCEPT ![e.i].REQUEST_ID = e.value]
    ELSE DeleteAt(shown, e.i)

\* How pandas aligns the Series of "requests.loc[mask] = row" is the
\* library's: with the columns (the row's cells go to every row of the mask),
\* with the index of the rows of the mask (their cells all become NaN), or
\* not at all (ValueError).
Alignments == {"columns", "index", "raise"}

\* the mask requests['REQUEST_ID'] == request_id; NaN equals nothing
IdMask(req, request_id) ==
    [i \in DOMAIN req |-> ~IsNa(request_id) /\ req[i].REQUEST_ID = request_id]

\* requests.loc[requests['REQUEST_ID'] == request_id] = row
LocAssign(req, row, align) ==
    LET mask == IdMask(req, row.REQUEST_ID)
    IN [i \in DOMAIN req |->
          IF ~mask[i] THEN req[i]
          ELSE IF align = "columns" THEN row
          ELSE NanRequestRow]

\* the loop over edited_df.iterrows()
RECURSIVE UpdateLoop(_, _, _)
UpdateLoop(req, edited, align) ==
    IF edited = <<>> THEN req
    ELSE UpdateLoop(LocAssign(req, Head(edited), align), Tail(edited), align)

\* whether an assignment of the loop raises
LoopRaises(req, edited, align) ==
    /\ align = "raise"
    /\ \E k \in DOMAIN edited : \E i \in DOMAIN req : IdMask(req, edited[k].REQUEST_ID)[i]

\* what the user does in the grid of datasets
DatasetEdits(shown) ==
    {NoEdit}
    \cup [kind : {"id"}, i : DOMAIN shown, value : {FormatDatasetId(1)}]
    \cup [kind : {"delete"}, i : DOMAIN shown, value : {<<>>}]

\* the frame st.data_editor returns for the grid of datasets
EditedDatasets(shown, e) ==
    IF e.kind = "none" THEN shown
    ELSE IF e.kind = "id" THEN [shown EXCEPT ![e.i].DATASET_ID = e.value]
    ELSE DeleteAt(shown, e.i)

-----------------------------------------------------------------------------
(* Excel import.                                                           *)

EmptyString == <<>>

\* the sheets 'Requests' of the uploaded workbooks: a row with an empty ID
\* cell, a row that carries an ID of its own, and both with an empty ID string
RequestSheets ==
    { <<RequestRow(NaN, Jan20Text, Bob, BobMail, "Approved")>>,
      <<RequestRow(FormatRequestId(1), TbdText, NaN, NaN, NA)>>,
      <<RequestRow(EmptyString, Jan20Text, Bob, BobMail, "Approved"),
        RequestRow(FormatRequestId(1), TbdText, NaN, NaN, NA)>> }

\* the sheets 'Datasets' of the uploaded workbooks
DatasetSheets ==
    { <<DatasetRow(NaN, <<"d">>, "Pending")>>,
      <<DatasetRow(FormatDatasetId(1), <<"d">>, "Pending")>> }

\* pd.isna(row[col]) or row[col] == ''
BlankId(id) == IsNa(id) \/ id = EmptyString

\* the loop of the import over the sheet's rows: a blank ID gets the next
\* number after max_existing_id
RECURSIVE AssignIds(_, _, _, _)
AssignIds(sheet, col, max_existing_id, prefix) ==
    IF sheet = <<>> THEN [rows |-> <<>>, max_existing_id |-> max_existing_id]
    ELSE LET blank == BlankId(Head(sheet)[col])
             next == IF blank THEN max_existing_id + 1 ELSE max_existing_id
             row == IF blank THEN [Head(sheet) EXCEPT ![col] = FormatId(prefix, next)] ELSE Head(sheet)
             rest == AssignIds(Tail(sheet), col, next, prefix)
         IN [rows |-> <<row>> \o rest.rows, max_existing_id |-> rest.max_existing_id]


NoMatch == "No requests match the current filters."

\* show_view_requests() when the grid is left as it is shown
ViewRequestsView(req, ds, status_filter, search_term) ==
    LET side == [Sidebar("View/Edit Requests", req, ds) EXCEPT
                   !.status_filter = status_filter,
                   !.search_term = search_term]
        filtered == FilterRequests(req, status_filter, search_term)
    IN IF side.raised THEN side
       ELSE IF Len(req) = 0 THEN [side EXCEPT !.messages = {NoRequests}]
       ELSE IF Len(filtered) > 0 THEN [side EXCEPT !.found = Shown(Len(filtered))]
       ELSE [side EXCEPT !.messages = {NoMatch}]

NoDatasets == "No datasets found."

\* show_manage_datasets() when the grid is left as it is shown
ManageDatasetsView(req, ds) ==
    LET side == Sidebar("Manage Datasets", req, ds)
    IN IF side.raised THEN side
       ELSE IF Len(ds) > 0 THEN side
       ELSE [side EXCEPT !.messages = {NoDatasets}]

-----------------------------------------------------------------------------
(* Time to approval.  approval_duration_stats(records) is specified as     *)
(* {mean, median} of the whole-day durations from the received date to the *)
(* granted date, over the records where both dates are known.              *)

\* date.toordinal(): the days from 0001-01-01, that day being 1
RECURSIVE DaysBeforeMonth(_, _)
DaysBeforeMonth(y, m) == IF m <= 1 THEN 0 ELSE DaysBeforeMonth(y, m - 1) + DaysIn(y, m - 1)

Ordinal(ts) ==
    LET y == ts.y - 1
    IN y * 365 + y \div 4 - y \div 100 + y \div 400 + DaysBeforeMonth(ts.y, ts.m) + ts.d

\* Optional: no value
None == <<>>

\* a variant of Duration that takes an unknown date for a zero-day duration
DurationZeroForUnknown(r) ==
    LET received == ToDatetime(r.received)
        granted == ToDatetime(r.granted)
    IN IF received # NaT /\ granted # NaT
       THEN <<Ordinal(granted) - Ordinal(received)>>
       ELSE <<0>>

\* the duration of one record in whole days: defined only when both dates
\* parse, else unknown
Duration(r) ==
    LET received == ToDatetime(r.received)
        granted == ToDatetime(r.granted)
    IN IF received # NaT /\ granted # NaT
       THEN <<Ordinal(granted) - Ordinal(received)>>
       ELSE None

\* the defined durations of the records, in record order
RECURSIVE DefinedDurations(_)
DefinedDurations(records) ==
    IF records = <<>> THEN <<>>
    ELSE Duration(Head(records)) \o DefinedDurations(Tail(records))

RECURSIVE Sum(_)
Sum(s) == IF s = <<>> THEN 0 ELSE Head(s) + Sum(Tail(s))

\* the mean of a non-empty sample, as the fraction num / den
Mean(sample) == [num |-> Sum(sample), den |-> Len(sample)]

\* the median of a non-empty sample, as the fraction num / den: the middle
\* value, or the mean of the two middle values
Median(sample) ==
    LET sorted == SortBy(sample, sample)
        n == Len(sorted)
    IN IF n % 2 = 1 THEN [num |-> sorted[(n + 1) \div 2], den |-> 1]
       ELSE [num |-> sorted[n \div 2] + sorted[n \div 2 + 1], den |-> 2]

approval_duration_stats(records) ==
    LET sample == DefinedDurations(records)
    IN IF sample = <<>>
       THEN [done |-> TRUE, mean |-> None, median |-> None]
       ELSE [done |-> TRUE, mean |-> <<Mean(sample)>>, median |-> <<Median(sample)>>]

-----------------------------------------------------------------------------
(* The session and the data directory.                                     *)

Mem == Memory(requests, datasets, last_request_id, last_dataset_id)

NoDisk == [requests |-> Absent, datasets |-> Absent, counters |-> Absent]

\* the session state of a second browser session that has not run yet
NoPeer == [requests |-> <<>>, datasets |-> <<>>, last_request_id |-> 0,
           last_dataset_id |-> 0, data_loaded |-> FALSE]

\* approval_duration_stats has not been called
NoStats == [done |-> FALSE, mean |-> None, median |-> None]

\* the process has started: the data directory exists and is empty, and the
\* session state holds nothing yet
Init ==
    /\ requests = <<>>
    /\ datasets = <<>>
    /\ last_request_id = 0
    /\ last_dataset_id = 0
    /\ data_loaded = FALSE
    /\ disk = NoDisk
    /\ faults = 0
    /\ steps = 0
    /\ view = Blank("start", "")
    /\ R = <<>>
    /\ stats = NoStats
    /\ peer = NoPeer

\* the session state becomes m
Assign(m) ==
    /\ requests' = m.requests
    /\ datasets' = m.datasets
    /\ last_request_id' = m.last_request_id
    /\ last_dataset_id' = m.last_dataset_id

\* the failures a save_data call may still meet
FaultChoices(used) == IF used < MaxFaults THEN Faults ELSE {NoFault}

SaveFailed == "Error saving data"

LoadFailed == "Error loading data"

\* the st.error of the save_data calls that returned False
SaveErrors(results) == IF \E r \in results : ~r.ok THEN {SaveFailed} ELSE {}

\* the st.error of a load_data call that returned False
LoadErrors(m) == IF m.ok THEN {} ELSE {LoadFailed}

\* initialize_session_state() on the first run of the script
InitializeSessionState ==
    /\ ~data_loaded
    /\ steps < MaxSteps
    /\ steps' = steps + 1
    /\ LET m == LoadData(Mem, disk)
       IN /\ Assign(m)
          /\ view' = Report("init", "Dashboard", LoadErrors(m))
    /\ data_loaded' = TRUE
    /\ UNCHANGED <<disk, faults, R, stats, peer>>

ChangesSaved == "Changes saved successfully!"

StatusFilters == {"All", "Approved"}

SearchTerms == {<<>>, <<"a", "n">>}

\* show_view_requests(): the grid is edited under the filters, and the edits
\* are written to the session's table and saved
EditRequests ==
    /\ data_loaded
    /\ steps < MaxSteps
    /\ steps' = steps + 1
    /\ Len(requests) > 0
    /\ \E status_filter \in StatusFilters, search_term \in SearchTerms :
        LET filtered == FilterRequests(requests, status_filter, search_term)
        IN /\ Len(filtered) > 0
           /\ \E e \in RequestEdits(filtered) :
               LET edited == EditedRequests(filtered, e)
               IN /\ edited # filtered
                  /\ \E align \in Alignments :
                      IF LoopRaises(requests, edited, align)
                      THEN /\ view' = [Blank("edit", "View/Edit Requests") EXCEPT
                                         !.status_filter = status_filter,
                                         !.search_term = search_term,
                                         !.raised = TRUE]
                           /\ UNCHANGED <<stored, disk, faults>>
                      ELSE /\ align # "raise"
                           /\ \E fault \in FaultChoices(faults) :
                               LET updated == UpdateLoop(requests, edited, align)
                                   saved == SaveData(Memory(updated, datasets, last_request_id,
                                                            last_dataset_id), disk, fault)
                               IN /\ requests' = updated
                                  /\ disk' = saved.disk
                                  /\ faults' = faults + FaultCount(fault)
                                  /\ view' = [Report("edit", "View/Edit Requests",
                                                     {ChangesSaved} \cup SaveErrors({saved}))
                                                EXCEPT !.status_filter = status_filter,
                                                       !.search_term = search_term]
                           /\ UNCHANGED <<datasets, last_request_id, last_dataset_id>>
    /\ UNCHANGED <<data_loaded, R, stats, peer>>

Refreshed == "Data refreshed!"

\* the button "Refresh Data" of show_view_requests()
RefreshData ==
    /\ data_loaded
    /\ steps < MaxSteps
    /\ steps' = steps + 1
    /\ Len(requests) > 0
    /\ LET m == LoadData(Mem, disk)
       IN /\ Assign(m)
          /\ view' = Report("refresh", "View/Edit Requests", {Refreshed} \cup LoadErrors(m))
    /\ UNCHANGED <<data_loaded, disk, faults, R, stats, peer>>

\* get_next_request_id(): the counter is incremented and saved, the new ID
\* is formatted from it
GetNextRequestId(mem, d, fault) ==
    LET next == [mem EXCEPT !.last_request_id = @ + 1]
    IN [mem |-> next, saved |-> SaveData(next, d, fault),
        id |-> FormatRequestId(next.last_request_id)]

\* get_next_dataset_id()
GetNextDatasetId(mem, d, fault) ==
    LET next == [mem EXCEPT !.last_dataset_id = @ + 1]
    IN [mem |-> next, saved |-> SaveData(next, d, fault),
        id |-> FormatDatasetId(next.last_dataset_id)]

\* add_request(request_data)
AddRequest(mem, d, row, fault) ==
    LET next == [mem EXCEPT !.requests = Concat(@, <<row>>)]
    IN [mem |-> next, saved |-> SaveData(next, d, fault)]

\* add_dataset(dataset_data)
AddDataset(mem, d, row, fault) ==
    LET next == [mem EXCEPT !.datasets = Concat(@, <<row>>)]
    IN [mem |-> next, saved |-> SaveData(next, d, fault)]

RequestCreated == "Request created and saved successfully!"

DatasetCreated == "Dataset created and saved successfully!"

FillRequired == "Please fill in all required fields"

FormNames == {<<>>, Ann}

FormDates == {Jan05}

FormStatuses == {"Draft"}

\* show_new_request(): the form is submitted
ShowNewRequest ==
    /\ data_loaded
    /\ steps < MaxSteps
    /\ steps' = steps + 1
    /\ \E name \in FormNames :
        LET email == AnnMail
        IN IF name # <<>> /\ email # <<>>
           THEN \E date_received \in FormDates, request_status \in FormStatuses,
                      f1 \in FaultChoices(faults) :
                    \E f2 \in FaultChoices(faults + FaultCount(f1)) :
                      LET got == GetNextRequestId(Mem, disk, f1)
                          row == RequestRow(got.id, date_received, name, email, request_status)
                          added == AddRequest(got.mem, got.saved.disk, row, f2)
                      IN /\ Assign(added.mem)
                         /\ disk' = added.saved.disk
                         /\ faults' = faults + FaultCount(f1) + FaultCount(f2)
                         /\ view' = Report("submit_request", "New Request",
                                           {RequestCreated} \cup SaveErrors({got.saved, added.saved}))
           ELSE /\ view' = Report("submit_request", "New Request", {FillRequired})
                /\ UNCHANGED <<stored, disk, faults>>
    /\ UNCHANGED <<data_loaded, R, stats, peer>>

DatasetNames == {<<>>, <<"d">>}

\* show_manage_datasets(), tab "Add New Dataset": the form is submitted
AddNewDataset ==
    /\ data_loaded
    /\ steps < MaxSteps
    /\ steps' = steps + 1
    /\ \E dataset_name \in DatasetNames :
        LET created_by == Ann
        IN IF dataset_name # <<>> /\ created_by # <<>>
           THEN \E f1 \in FaultChoices(faults) :
                    \E f2 \in FaultChoices(faults + FaultCount(f1)) :
                      LET got == GetNextDatasetId(Mem, disk, f1)
                          row == DatasetRow(got.id, dataset_name, "Pending")
                          added == AddDataset(got.mem, got.saved.disk, row, f2)
                      IN /\ Assign(added.mem)
                         /\ disk' = added.saved.disk
                         /\ faults' = faults + FaultCount(f1) + FaultCount(f2)
                         /\ view' = Report("submit_dataset", "Manage Datasets",
                                           {DatasetCreated} \cup SaveErrors({got.saved, added.saved}))
           ELSE /\ view' = Report("submit_dataset", "Manage Datasets", {FillRequired})
                /\ UNCHANGED <<stored, disk, faults>>
    /\ UNCHANGED <<data_loaded, R, stats, peer>>

DatasetChangesSaved == "Dataset changes saved!"

\* show_manage_datasets(), tab "View Datasets": the grid is edited, and the
\* edited frame replaces the session's table and is saved
EditDatasets ==
    /\ data_loaded
    /\ steps < MaxSteps
    /\ steps' = steps + 1
    /\ Len(datasets) > 0
    /\ \E e \in DatasetEdits(datasets) :
        LET edited == EditedDatasets(datasets, e)
        IN /\ edited # datasets
           /\ \E fault \in FaultChoices(faults) :
               LET saved == SaveData(Memory(requests, edited, last_request_id, last_dataset_id),
                                     disk, fault)
               IN /\ datasets' = edited
                  /\ disk' = saved.disk
                  /\ faults' = faults + FaultCount(fault)
                  /\ view' = Report("edit_datasets", "Manage Datasets",
                                    {DatasetChangesSaved} \cup SaveErrors({saved}))
    /\ UNCHANGED <<requests, last_request_id, last_dataset_id, data_loaded, R, stats, peer>>

\* an import that would replace the session's table by the sheet's rows
ImportedRequestsReplacing(mem, sheet) ==
    LET got == AssignIds(sheet, "REQUEST_ID", mem.last_request_id, REQ)
    IN [mem EXCEPT !.last_request_id = got.max_existing_id,
                   !.requests = got.rows]

\* the session state after the button "Import Requests"
ImportedRequests(mem, sheet) ==
    LET got == AssignIds(sheet, "REQUEST_ID", mem.last_request_id, REQ)
    IN [mem EXCEPT !.last_request_id = got.max_existing_id,
                   !.requests = Concat(@, got.rows)]

\* the session state after the button "Import Datasets"
ImportedDatasets(mem, sheet) ==
    LET got == AssignIds(sheet, "DATASET_ID", mem.last_dataset_id, DS)
    IN [mem EXCEPT !.last_dataset_id = got.max_existing_id,
                   !.datasets = Concat(@, got.rows)]

RequestsImported == "Imported requests and saved!"

DatasetsImported == "Imported datasets and saved!"

\* show_import_export(): the button "Import Requests" on an uploaded workbook
ImportRequests ==
    /\ data_loaded
    /\ steps < MaxSteps
    /\ steps' = steps + 1
    /\ \E sheet \in RequestSheets :
        LET next == ImportedRequests(Mem, sheet)
        IN \E fault \in FaultChoices(faults) :
               LET saved == SaveData(next, disk, fault)
               IN /\ Assign(next)
                  /\ disk' = saved.disk
                  /\ faults' = faults + FaultCount(fault)
                  /\ view' = [Report("import_requests", "Import/Export",
                                     {RequestsImported} \cup SaveErrors({saved}))
                                EXCEPT !.uploaded = Shown(sheet)]
    /\ UNCHANGED <<data_loaded, R, stats, peer>>

\* show_import_export(): the button "Import Datasets" on an uploaded workbook
ImportDatasets ==
    /\ data_loaded
    /\ steps < MaxSteps
    /\ steps' = steps + 1
    /\ \E sheet \in DatasetSheets :
        LET next == ImportedDatasets(Mem, sheet)
        IN \E fault \in FaultChoices(faults) :
               LET saved == SaveData(next, disk, fault)
               IN /\ Assign(next)
                  /\ disk' = saved.disk
                  /\ faults' = faults + FaultCount(fault)
                  /\ view' = [Report("import_datasets", "Import/Export",
                                     {DatasetsImported} \cup SaveErrors({saved}))
                                EXCEPT !.uploaded = Shown(sheet)]
    /\ UNCHANGED <<data_loaded, R, stats, peer>>

Saved == "Saved!"

Loaded == "Loaded!"

\* main(): the sidebar button "Save", below the quick stats
SaveButton ==
    /\ data_loaded
    /\ steps < MaxSteps
    /\ steps' = steps + 1
    /\ \E fault \in FaultChoices(faults) :
        LET saved == SaveData(Mem, disk, fault)
        IN /\ disk' = saved.disk
           /\ faults' = faults + FaultCount(fault)
           /\ view' = [Sidebar("", requests, datasets) EXCEPT
                         !.op = "save",
                         !.messages = IF saved.ok THEN {Saved} ELSE {SaveFailed}]
    /\ UNCHANGED <<stored, data_loaded, R, stats, peer>>

\* main(): the sidebar button "Load", below the quick stats
LoadButton ==
    /\ data_loaded
    /\ steps < MaxSteps
    /\ steps' = steps + 1
    /\ LET m == LoadData(Mem, disk)
       IN /\ Assign(m)
          /\ view' = [Sidebar("", requests, datasets) EXCEPT
                        !.op = "load",
                        !.messages = IF m.ok THEN {Loaded} ELSE {LoadFailed}]
    /\ UNCHANGED <<data_loaded, disk, faults, R, stats, peer>>

\* a run of the script on the page Dashboard
ShowDashboard ==
    /\ data_loaded
    /\ requests' = DashboardRequests(requests)
    /\ view' = DashboardView(requests, datasets)
    /\ UNCHANGED <<datasets, last_request_id, last_dataset_id, data_loaded,
                   disk, faults, steps, R, stats, peer>>

\* a run of the script on the page Reports
ShowReports ==
    /\ data_loaded
    /\ \E report_type \in ReportTypes :
          /\ requests' = ReportsRequests(requests, report_type)
          /\ view' = ReportsView(requests, datasets, report_type)
    /\ UNCHANGED <<datasets, last_request_id, last_dataset_id, data_loaded,
                   disk, faults, steps, R, stats, peer>>

\* a run of the script on the page View/Edit Requests, the grid left as shown
ShowViewRequests ==
    /\ data_loaded
    /\ \E status_filter \in StatusFilters, search_term \in SearchTerms :
          view' = ViewRequestsView(requests, datasets, status_filter, search_term)
    /\ UNCHANGED <<stored, data_loaded, disk, faults, steps, R, stats, peer>>

\* a run of the script on the page Manage Datasets, the grid left as shown
ShowManageDatasets ==
    /\ data_loaded
    /\ view' = ManageDatasetsView(requests, datasets)
    /\ UNCHANGED <<stored, data_loaded, disk, faults, steps, R, stats, peer>>

Handlers ==
    \/ InitializeSessionState
    \/ ShowNewRequest
    \/ AddNewDataset
    \/ EditRequests
    \/ EditDatasets
    \/ ImportRequests
    \/ ImportDatasets
    \/ RefreshData
    \/ SaveButton
    \/ LoadButton

Pages ==
    \/ ShowDashboard
    \/ ShowReports
    \/ ShowViewRequests
    \/ ShowManageDatasets

Next == Handlers

Spec == Init /\ [][Next]_vars

-----------------------------------------------------------------------------
(* Two browser sessions on one data directory.  Each has a session state   *)
(* of its own; the second one's is peer.  A handler of one session runs    *)
(* to its end before a handler of the other starts.                        *)

PeerMem == Memory(peer.requests, peer.datasets, peer.last_request_id, peer.last_dataset_id)

\* the second session's state becomes m
PeerAssign(m, loaded) ==
    peer' = [requests |-> m.requests, datasets |-> m.datasets,
             last_request_id |-> m.last_request_id,
             last_dataset_id |-> m.last_dataset_id, data_loaded |-> loaded]

\* initialize_session_state() on the first run of the second session
PeerInitializeSessionState ==
    /\ ~peer.data_loaded
    /\ steps < MaxSteps
    /\ steps' = steps + 1
    /\ LET m == LoadData(PeerMem, disk)
       IN /\ PeerAssign(m, TRUE)
          /\ view' = Report("peer_init", "Dashboard", LoadErrors(m))
    /\ UNCHANGED <<stored, data_loaded, disk, faults, R, stats>>

\* show_new_request() in the second session: the form is submitted
PeerShowNewRequest ==
    /\ peer.data_loaded
    /\ steps < MaxSteps
    /\ steps' = steps + 1
    /\ \E date_received \in FormDates, request_status \in FormStatuses,
          f1 \in FaultChoices(faults) :
          \E f2 \in FaultChoices(faults + FaultCount(f1)) :
             LET got == GetNextRequestId(PeerMem, disk, f1)
                 row == RequestRow(got.id, date_received, Bob, BobMail, request_status)
                 added == AddRequest(got.mem, got.saved.disk, row, f2)
             IN /\ PeerAssign(added.mem, TRUE)
                /\ disk' = added.saved.disk
                /\ faults' = faults + FaultCount(f1) + FaultCount(f2)
                /\ view' = Report("peer_submit_request", "New Request",
                                  {RequestCreated} \cup SaveErrors({got.saved, added.saved}))
    /\ UNCHANGED <<stored, data_loaded, R, stats>>

\* main() in the second session: the sidebar button "Load"
PeerLoadButton ==
    /\ peer.data_loaded
    /\ steps < MaxSteps
    /\ steps' = steps + 1
    /\ LET m == LoadData(PeerMem, disk)
       IN /\ PeerAssign(m, TRUE)
          /\ view' = [Sidebar("", peer.requests, peer.datasets) EXCEPT
                        !.op = "peer_load",
                        !.messages = IF m.ok THEN {Loaded} ELSE {LoadFailed}]
    /\ UNCHANGED <<stored, data_loaded, disk, faults, R, stats>>

Sessions ==
    \/ InitializeSessionState
    \/ ShowNewRequest
    \/ LoadButton
    \/ PeerInitializeSessionState
    \/ PeerShowNewRequest
    \/ PeerLoadButton

SpecSessions == Init /\ [][Sessions]_vars

-----------------------------------------------------------------------------
(* The pages over every table: the session after a workbook whose sheet    *)
(* 'Requests' has up to MaxLen rows, all without an ID, was imported into  *)
(* an empty data directory.                                                *)

\* the rows of the sheets: the statuses and dates a cell may hold
SheetRows ==
    { RequestRow(NaN, Jan05, Ann, AnnMail, "Approved"),
      RequestRow(NaN, Jan20Text, Bob, BobMail, "Draft"),
      RequestRow(NaN, Feb10, Ann, AnnMail, "Approved"),
      RequestRow(NaN, Jan05Text, NaN, NaN, "Draft"),
      RequestRow(NaN, TbdText, Bob, BobMail, NA),
      RequestRow(NaN, NanCell, Ann, AnnMail, " "),
      RequestRow(NaN, Feb30Text, NaN, NaN, "Submitted") }

\* the sequences over S of length up to n
SeqsUpTo(S, n) == UNION {[1..k -> S] : k \in 0..n}

InitMetrics ==
    /\ \E sheet \in SeqsUpTo(SheetRows, MaxLen), ds \in {<<>>} \cup DatasetSheets :
        LET start == Memory(<<>>, <<>>, 0, 0)
            next == ImportedDatasets(ImportedRequests(start, sheet), ds)
        IN /\ requests = next.requests
           /\ datasets = next.datasets
           /\ last_request_id = next.last_request_id
           /\ last_dataset_id = next.last_dataset_id
           /\ disk = SaveData(next, NoDisk, NoFault).disk
    /\ data_loaded = TRUE
    /\ faults = 0
    /\ steps = 0
    /\ view = Blank("start", "")
    /\ R = <<>>
    /\ stats = NoStats
    /\ peer = NoPeer

SpecMetrics == InitMetrics /\ [][Pages]_vars

-----------------------------------------------------------------------------
(* approval_duration_stats over every record set of up to MaxLen records.  *)

\* the received and granted cells of a record: days, text that parses, text
\* that does not, and an empty cell
ReceivedCells == {Jan05, Jan20Text, TbdText}

GrantedCells == {Jan05, Feb10, NanCell}

StatRecords == [received : ReceivedCells, granted : GrantedCells]

InitStats ==
    /\ R \in SeqsUpTo(StatRecords, MaxLen)
    /\ stats = NoStats
    /\ peer = NoPeer
    /\ requests = <<>>
    /\ datasets = <<>>
    /\ last_request_id = 0
    /\ last_dataset_id = 0
    /\ data_loaded = FALSE
    /\ disk = NoDisk
    /\ faults = 0
    /\ steps = 0
    /\ view = Blank("start", "")

\* the caller asks for the statistics of R
ApprovalDurationStats ==
    /\ ~stats.done
    /\ stats' = approval_duration_stats(R)
    /\ UNCHANGED <<stored, data_loaded, disk, faults, steps, view, R, peer>>

SpecStats == InitStats /\ [][ApprovalDurationStats]_vars

-----------------------------------------------------------------------------
(* Overdue detection.  count_overdue(records, today, threshold_days,       *)
(* terminal_statuses) is specified as the number of records whose status   *)
(* is not terminal and whose received date is more than threshold_days     *)
(* before today; it is 0 when the status field or the received-date field  *)
(* is absent from the record set.                                          *)

\* the field vocabulary of a record set
Fields(records) == IF records = <<>> THEN {} ELSE DOMAIN records[1]

\* a variant of IsOverdue that counts the records younger than the threshold
IsOverdueYounger(r, today, threshold_days, terminal_statuses) ==
    /\ r.status \notin terminal_statuses
    /\ ToDatetime(r.received) # NaT
    /\ Ordinal(today) - Ordinal(ToDatetime(r.received)) < threshold_days

\* the overdue flag of one record that has both fields
IsOverdue(r, today, threshold_days, terminal_statuses) ==
    /\ r.status \notin terminal_statuses
    /\ ToDatetime(r.received) # NaT
    /\ Ordinal(today) - Ordinal(ToDatetime(r.received)) > threshold_days

count_overdue(records, today, threshold_days, terminal_statuses) ==
    IF {"status", "received"} \subseteq Fields(records)
    THEN Len(Compress(records,
                      [i \in DOMAIN records |->
                          IsOverdue(records[i], today, threshold_days, terminal_statuses)]))
    ELSE 0

\* the record sets: every vocabulary over the two fields, the received cells
\* a day, a text that parses, a text that does not; the statuses terminal,
\* not terminal and missing
OverdueVocabularies == SUBSET {"status", "received"}

OverdueRecords(fields) ==
    {[f \in fields |-> r[f]] :
        r \in [received : ReceivedCells, status : {"Approved", "In Review", NA}]}

Todays == {Timestamp(2024, 1, 10), Timestamp(2024, 2, 10)}

Thresholds == {0, 21, 90}

TerminalStatuses == {{"Approved"}, {"Approved", "In Review"}}

InitOverdue ==
    /\ \E fields \in OverdueVocabularies : R \in SeqsUpTo(OverdueRecords(fields), MaxLen)
    /\ stats = NoStats
    /\ peer = NoPeer
    /\ requests = <<>>
    /\ datasets = <<>>
    /\ last_request_id = 0
    /\ last_dataset_id = 0
    /\ data_loaded = FALSE
    /\ disk = NoDisk
    /\ faults = 0
    /\ steps = 0
    /\ view = Blank("start", "")

\* the caller asks for the overdue count of R
CountOverdue ==
    /\ ~stats.done
    /\ \E today \in Todays, threshold_days \in Thresholds,
          terminal_statuses \in TerminalStatuses :
          stats' = [done |-> TRUE, today |-> today, threshold_days |-> threshold_days,
                    terminal_statuses |-> terminal_statuses,
                    count |-> count_overdue(R, today, threshold_days, terminal_statuses)]
    /\ UNCHANGED <<stored, data_loaded, disk, faults, steps, view, R, peer>>

SpecOverdue == InitOverdue /\ [][CountOverdue]_vars

-----------------------------------------------------------------------------
(* Properties.                                                             *)

RECURSIVE SumN(_)
SumN(groups) == IF groups = <<>> THEN 0 ELSE Head(groups).n + SumN(Tail(groups))

\* no two rows of t hold the same ID in column col (NaN equals nothing)
IdsUnique(t, col) ==
    \A i, j \in DOMAIN t : (i # j /\ ~IsNa(t[i][col])) => t[i][col] # t[j][col]

\* C1: in every reachable state no two rows of the requests table have the
\* same REQUEST_ID and no two rows of the datasets table the same DATASET_ID.
C1_IdentifiersUnique ==
    IdsUnique(requests, "REQUEST_ID") /\ IdsUnique(datasets, "DATASET_ID")

\* a stored row has the columns of the table and an uncoerced date cell
StoredRaw ==
    \A i \in DOMAIN requests :
        /\ DOMAIN requests[i] = RequestColumns
        /\ requests[i].DATE_REQUEST_RECEIVED.t # "ts"

\* C2: a run of a page (dashboard, reports, the lists, each with the sidebar
\* quick stats) leaves the stored requests table, the stored datasets table
\* and both counters as they were; coerced dates and the column 'Month' are
\* on the copy only.
C2_MetricsDoNotMutate == [][stored' = stored /\ StoredRaw']_vars

\* a monthly report was rendered from a table with an unparseable date: its
\* copy carries 'Month' and a coerced NaT
C2_Witness ==
    /\ view.page = "Reports"
    /\ view.monthly # NotShown
    /\ \E i \in DOMAIN view.requests_copy[1] :
          /\ "Month" \in DOMAIN view.requests_copy[1][i]
          /\ view.requests_copy[1][i].DATE_REQUEST_RECEIVED = NaT
          /\ requests[i].DATE_REQUEST_RECEIVED.t = "str"

\* the rows whose received date parses
Parsing(t) == {i \in DOMAIN t : ToDatetime(t[i].DATE_REQUEST_RECEIVED) # NaT}

\* C3: the per-day counts of the dashboard and the per-month counts of the
\* monthly report sum to the number of rows whose received date parses, and
\* Total Requests is the number of all rows.
C3_UnparseableDatesOnlyInTotal ==
    /\ view.by_date # NotShown => SumN(view.by_date[1]) = Cardinality(Parsing(requests))
    /\ view.monthly # NotShown => SumN(view.monthly[1]) = Cardinality(Parsing(requests))
    /\ view.total # NotShown => view.total[1] = Len(requests)

\* the dashboard charted a table with a row that is in no bucket
C3_Witness ==
    /\ view.by_date # NotShown
    /\ view.by_date[1] # <<>>
    /\ SumN(view.by_date[1]) < view.total[1]

\* the buckets follow each other in strictly increasing order of their period
Chronological(groups) ==
    \A i, j \in DOMAIN groups : i < j => Before(groups[i].key, groups[j].key)

Permuted(t, p) == [i \in DOMAIN t |-> t[p[i]]]

\* C4: the buckets are in strictly increasing chronological order, and every
\* permutation of the rows of the table gives the same buckets with the same
\* counts.
C4_BucketsChronological ==
    /\ view.by_date # NotShown =>
          /\ Chronological(view.by_date[1])
          /\ \A p \in Permutations(DOMAIN requests) :
                RequestsByDate(Permuted(requests, p)) = view.by_date[1]
    /\ view.monthly # NotShown =>
          /\ Chronological(view.monthly[1])
          /\ \A p \in Permutations(DOMAIN requests) :
                MonthlyCounts(Permuted(requests, p)) = view.monthly[1]

\* the dashboard charted several days from rows that are not in date order
C4_Witness ==
    /\ view.by_date # NotShown
    /\ Len(view.by_date[1]) >= 2
    /\ \E i, j \in DOMAIN requests :
          /\ i < j
          /\ Before(ToDatetime(requests[j].DATE_REQUEST_RECEIVED),
                    ToDatetime(requests[i].DATE_REQUEST_RECEIVED))
          /\ ToDatetime(requests[j].DATE_REQUEST_RECEIVED) # NaT

\* a status cell that is missing, empty or blank
BlankStatus(v) == v \in {NA, "", " "}

\* C5: the status distribution has no category for a missing or blank status,
\* and its counts sum to the number of rows with a non-blank status.
C5_DistributionExcludesBlank ==
    view.status_counts # NotShown =>
        /\ \A k \in DOMAIN view.status_counts[1] : ~BlankStatus(view.status_counts[1][k].value)
        /\ SumN(view.status_counts[1])
             = Cardinality({i \in DOMAIN requests : ~BlankStatus(requests[i].REQUEST_STATUS)})

\* what a page shows of a requests table without rows, or of a filter
\* without matches
EmptyResult ==
    /\ ~view.raised
    /\ Len(requests) = 0 =>
          /\ view.total = Shown(0)
          /\ view.approval_rate = NotShown
          /\ view.status_counts = NotShown
          /\ view.by_date = NotShown
          /\ view.monthly = NotShown
          /\ view.requests_copy = NotShown
          /\ view.page = "Dashboard" =>
                /\ view.approved = Shown(0)
                /\ view.pending = Shown(0)
                /\ view.messages = {NoRequests}
          /\ view.page = "Reports" => view.messages = {NoReportData}
          /\ view.page = "View/Edit Requests" => view.messages = {NoRequests}
    /\ \A status_filter \in StatusFilters, search_term \in SearchTerms :
          Len(FilterRequests(requests, status_filter, search_term)) = 0 =>
             LET v == ViewRequestsView(requests, datasets, status_filter, search_term)
             IN /\ ~v.raised
                /\ v.found = NotShown
                /\ v.messages = IF Len(requests) = 0 THEN {NoRequests} ELSE {NoMatch}

\* C6: a page run on a requests table of zero rows, or with a filter that
\* matches zero rows, does not raise, shows the empty result (total 0,
\* approved 0, pending 0, no chart, no approval rate, the informational
\* message) and leaves the stored tables and counters as they were.
C6_EmptyInputNeverRaises ==
    [][(Len(requests) = 0 \/ NoMatch \in view'.messages) => (EmptyResult' /\ stored' = stored)]_vars

\* the dashboard was rendered from a table without rows
C6_Witness ==
    /\ view.page = "Dashboard"
    /\ Len(requests) = 0
    /\ view.total = Shown(0)
    /\ view.approved = Shown(0)
    /\ view.messages = {NoRequests}

LoadOps == {"init", "refresh", "load"}

\* the table a readable or missing file stands for
FileTable(f) == IF Exists(f) THEN Unpickle(f) ELSE <<>>

\* the rows of an uploaded sheet as an import takes them: the cells of the
\* sheet, a blank ID cell filled
SheetRecords(sheet, rows, col) ==
    /\ Len(rows) = Len(sheet)
    /\ \A k \in DOMAIN sheet :
          /\ \A c \in DOMAIN sheet[k] \ {col} : rows[k][c] = sheet[k][c]
          /\ ~BlankId(sheet[k][col]) => rows[k][col] = sheet[k][col]
          /\ ~BlankId(rows[k][col])

\* C7 as stated: after load_data, and after an Excel import of a sheet, the
\* table in memory consists of exactly the records of the loaded source, and
\* no row that was in memory before survives.
C7_LoadReplacesWholesale ==
    [][/\ (view'.op \in LoadOps /\ LoadData(Mem, disk).ok) =>
             /\ requests' = FileTable(disk.requests)
             /\ datasets' = FileTable(disk.datasets)
       /\ view'.op = "import_requests" =>
             SheetRecords(view'.uploaded[1], requests', "REQUEST_ID")
       /\ view'.op = "import_datasets" =>
             SheetRecords(view'.uploaded[1], datasets', "DATASET_ID")]_vars

\* C7: load_data replaces each table it reads by the content of its file
\* (the empty table when the file is missing); after a file that cannot be
\* read, that table and what is read after it stay as they were.  An Excel
\* import appends: the rows in memory all survive, in place, and the sheet's
\* records follow them.
C7_LoadReplacesImportAppends ==
    [][/\ view'.op \in LoadOps =>
             LET okR == ~Exists(disk.requests) \/ Loadable(disk.requests)
                 okD == okR /\ (~Exists(disk.datasets) \/ Loadable(disk.datasets))
             IN /\ requests' = IF okR THEN FileTable(disk.requests) ELSE requests
                /\ datasets' = IF okD THEN FileTable(disk.datasets) ELSE datasets
       /\ view'.op = "import_requests" =>
             /\ SubSeq(requests', 1, Len(requests)) = requests
             /\ SheetRecords(view'.uploaded[1],
                             SubSeq(requests', Len(requests) + 1, Len(requests')),
                             "REQUEST_ID")
             /\ datasets' = datasets
       /\ view'.op = "import_datasets" =>
             /\ SubSeq(datasets', 1, Len(datasets)) = datasets
             /\ SheetRecords(view'.uploaded[1],
                             SubSeq(datasets', Len(datasets) + 1, Len(datasets')),
                             "DATASET_ID")
             /\ requests' = requests]_vars

\* a sheet was imported into a table that had rows
C7_Witness ==
    /\ view.op = "import_requests"
    /\ Len(requests) > Len(view.uploaded[1])

\* session states other than the saved one, into which it is loaded
OtherMemories ==
    { Memory(<<>>, <<>>, 0, 0),
      Memory(requests \o requests, <<>>, last_request_id + 1, last_dataset_id + 2) }

\* C8: from every reachable session state, a save_data that returns True and
\* then a load_data that returns True, into whatever the session holds by
\* then, restore the saved requests, datasets and counters; after the button
\* "Save" or "Load" reported success, the session is what the files hold;
\* and load_data with no files gives two empty tables and counters 0.
C8_SaveLoadRoundTrip ==
    /\ LET saved == SaveData(Mem, disk, NoFault)
       IN /\ saved.ok
          /\ \A other \in OtherMemories :
                LET m == LoadData(other, saved.disk)
                IN /\ m.ok
                   /\ Memory(m.requests, m.datasets, m.last_request_id, m.last_dataset_id) = Mem
    /\ (view.messages \cap {Saved, Loaded} # {}) =>
          \A other \in OtherMemories :
             LoadData(other, disk) = [requests |-> requests, datasets |-> datasets,
                                      last_request_id |-> last_request_id,
                                      last_dataset_id |-> last_dataset_id, ok |-> TRUE]
    /\ LoadData(Mem, NoDisk) = [requests |-> <<>>, datasets |-> <<>>,
                                last_request_id |-> 0, last_dataset_id |-> 0, ok |-> TRUE]

\* the button "Load" restored saved tables and counters that differ
C8_Witness ==
    /\ view.op = "load"
    /\ Loaded \in view.messages
    /\ Len(requests) > 0
    /\ last_request_id # last_dataset_id
    /\ disk = SaveData(Mem, disk, NoFault).disk

SuccessMessages ==
    {RequestCreated, DatasetCreated, ChangesSaved, DatasetChangesSaved,
     RequestsImported, DatasetsImported}

\* C9: when a submission, an edit or an import reports success, the three
\* files hold the session's requests, datasets and counters, and no
\* save_data call of that handler returned False.
C9_SuccessMeansPersisted ==
    (view.messages \cap SuccessMessages # {}) =>
        /\ disk = SaveData(Mem, disk, NoFault).disk
        /\ SaveFailed \notin view.messages

\* the records of R with both dates known
DefinedRecords == {i \in DOMAIN R : ToDatetime(R[i].received) # NaT
                                     /\ ToDatetime(R[i].granted) # NaT}

DaysOf(i) == Ordinal(ToDatetime(R[i].granted)) - Ordinal(ToDatetime(R[i].received))

RECURSIVE SumDays(_)
SumDays(S) == IF S = {} THEN 0
              ELSE LET i == CHOOSE i \in S : TRUE IN DaysOf(i) + SumDays(S \ {i})

\* C10: approval_duration_stats(R) gives None for both mean and median
\* exactly when no record of R has both dates known; otherwise the mean is
\* the sum of the durations of the records with both dates over their
\* number, and the median is a median of those same durations, so a record
\* with an unknown date counts for nothing.
C10_NoneIffNoDefinedDuration ==
    stats.done =>
        /\ (stats.mean = None /\ stats.median = None) <=> DefinedRecords = {}
        /\ (stats.mean = None) <=> (stats.median = None)
        /\ DefinedRecords # {} =>
              LET n == Cardinality(DefinedRecords)
                  mean == stats.mean[1]
                  median == stats.median[1]
              IN /\ mean.den = n
                 /\ mean.num = SumDays(DefinedRecords)
                 /\ 2 * Cardinality({i \in DefinedRecords : DaysOf(i) * median.den <= median.num}) >= n
                 /\ 2 * Cardinality({i \in DefinedRecords : DaysOf(i) * median.den >= median.num}) >= n
                 /\ median.den = 1 => \E i \in DefinedRecords : DaysOf(i) = median.num

\* the statistics of a record set with records, none of them with both dates
\* known
C10_Witness ==
    /\ stats.done
    /\ Len(R) > 0
    /\ DefinedRecords = {}
    /\ stats.mean = None

\* the records of R that can be overdue at all: both fields present, the
\* status not terminal, the received date parseable
CanBeOverdue(terminal_statuses) ==
    {i \in DOMAIN R : /\ {"status", "received"} \subseteq DOMAIN R[i]
                      /\ R[i].status \notin terminal_statuses
                      /\ ToDatetime(R[i].received) # NaT}

\* C11: with today fixed, count_overdue at a threshold T1 is at least
\* count_overdue at every threshold T2 >= T1; only records with a status that
\* is not terminal and a parseable received date are counted; and the count
\* is 0 when the status field or the received-date field is absent.
C11_OverdueMonotone ==
    stats.done =>
        /\ \A t1, t2 \in Thresholds :
              t1 <= t2 => count_overdue(R, stats.today, t1, stats.terminal_statuses)
                            >= count_overdue(R, stats.today, t2, stats.terminal_statuses)
        /\ \A t \in Thresholds :
              t <= stats.threshold_days =>
                 count_overdue(R, stats.today, t, stats.terminal_statuses) >= stats.count
        /\ stats.count =
              Cardinality({i \in CanBeOverdue(stats.terminal_statuses) :
                  Ordinal(stats.today) - Ordinal(ToDatetime(R[i].received))
                     > stats.threshold_days})
        /\ ~({"status", "received"} \subseteq Fields(R)) => stats.count = 0

\* a count that is not 0, of a record set that also has a record without a
\* parseable date and a record with a terminal status, and that a higher
\* threshold makes smaller
C11_Witness ==
    /\ stats.done
    /\ stats.count >= 1
    /\ \E i \in DOMAIN R : ToDatetime(R[i].received) = NaT
                           /\ R[i].status \notin stats.terminal_statuses
    /\ \E i \in DOMAIN R : R[i].status \in stats.terminal_statuses
    /\ \E t \in Thresholds :
          count_overdue(R, stats.today, t, stats.terminal_statuses) < stats.count

\* the session states of a handler's step that its save_data calls wrote or
\* set out to write: the state before, the state after, and the state after
\* get_next_request_id or get_next_dataset_id (the tables before, the
\* counters after)
StepMemories ==
    {Mem,
     Memory(requests', datasets', last_request_id', last_dataset_id'),
     Memory(requests, datasets, last_request_id', last_dataset_id')}

\* the files hold session state m and nothing else
Holds(d, m) == d = SaveData(m, d, NoFault).disk

\* a step with a save_data call that returned False leaves the files as they
\* were or holding one session state of the step, and what load_data then
\* reads from them, when it returns True, is such a state
AllOrNothing ==
    SaveFailed \in view'.messages =>
        /\ disk' = disk \/ \E m \in StepMemories : Holds(disk', m)
        /\ LET l == LoadData(Memory(<<>>, <<>>, 0, 0), disk')
           IN l.ok => \/ disk' = disk
                      \/ Memory(l.requests, l.datasets, l.last_request_id,
                                l.last_dataset_id) \in StepMemories

\* C12: when a save_data call of a step returned False, the three files are
\* as they were before the step or hold one single session state of the
\* step, and a load_data that then returns True gives such a state: its
\* requests table has no generated ID above its last_request_id.
C12_SaveAllOrNothing == [][AllOrNothing]_vars

\* row r is shown under the filters
Matches(r, status_filter, search_term) ==
    /\ status_filter # "All" => r.REQUEST_STATUS = status_filter
    /\ search_term # <<>> => Contains(r.NAME, search_term) \/ Contains(r.EMAIL, search_term)

\* an edit of the grid leaves the number of rows and the rows not shown
EditsOnlyShownRows ==
    view'.op = "edit" =>
        /\ Len(requests') = Len(requests)
        /\ \A i \in DOMAIN requests :
              ~Matches(requests[i], view'.status_filter, view'.search_term)
                 => requests'[i] = requests[i]

\* C13: saving the edits of the grid of View/Edit Requests leaves every row
\* of the stored requests table that does not match the status filter and
\* the search term as it was, and leaves the number of rows as it was.
C13_EditsOnlyFilteredRows == [][EditsOnlyShownRows]_vars

\* the two sessions hold no two different requests under one REQUEST_ID
NoSharedId ==
    \A i \in DOMAIN requests, j \in DOMAIN peer.requests :
        requests[i].REQUEST_ID = peer.requests[j].REQUEST_ID => requests[i] = peer.requests[j]

\* the rows of the requests file, none while it is missing or unreadable
FileRows(f) == IF Loadable(f) THEN Range(Unpickle(f)) ELSE {}

\* without I/O failures, a step of either session leaves the sessions without
\* a shared ID and the requests file with every row it had
SessionsConflictFree ==
    faults' = 0 => /\ NoSharedId'
                   /\ FileRows(disk.requests) \subseteq FileRows(disk'.requests)

\* C14: in every interleaving of the submissions (and loads) of two sessions
\* on one data directory, the sessions never issue the same REQUEST_ID for
\* two requests, and a request that is in the requests file is never removed
\* from it by a later save.
C14_SessionsConflictFree == [][SessionsConflictFree]_vars

====
